---- MODULE Spec2Model ----
(***************************************************************************)
(* A model of khal/ui/startendeditor.py: the start/end state machine of    *)
(* StartEndEditor (field validators, toggle_allday, toggle_tz, changed,    *)
(* validate).  The widget tree that rebuild() constructs carries no data   *)
(* of its own and is not part of the state.                                *)
(*                                                                         *)
(* Values of the datetime library are modelled by what the library does:   *)
(*   a moment is [kind, ord, tod, tz]                                      *)
(*     kind  "date" (datetime.date) or "datetime" (datetime.datetime)      *)
(*     ord   the proleptic Gregorian ordinal of the wall-clock date        *)
(*     tod   the wall-clock minute of the day (0 for a date)               *)
(*     tz    "None" (naive), the name of a pytz zone, or "local" (the      *)
(*           fixed-offset datetime.timezone that astimezone(None) builds   *)
(*           from the system's local zone)                                 *)
(* Zones have fixed UTC offsets (no DST transition lies in the modelled    *)
(* dates).  astimezone follows Python >= 3.6: a naive datetime is taken    *)
(* to be in the system's local zone.                                       *)
(***************************************************************************)
EXTENDS Integers, Sequences, FiniteSets

VARIABLES _startdt, _enddt, allday, _tz_state, _original_start, _original_end,
          localtz, lastop

vars == <<_startdt, _enddt, allday, _tz_state, _original_start, _original_end,
          localtz, lastop>>

data == <<_startdt, _enddt, allday, _tz_state>>

-----------------------------------------------------------------------------
(* The environment: pytz zones and the configuration (self.conf['locale']) *)

Zones == {"Europe/Berlin", "America/New_York"}

ZoneOffset == [z \in Zones |-> IF z = "Europe/Berlin" THEN 60 ELSE 0 - 300]

default_timezone == "Europe/Berlin"

MinutesPerDay == 24 * 60

\* tzinfo.utcoffset(): a pytz zone's own offset; the "local" fixed-offset
\* timezone has the offset of the system's zone.
UtcOffset(tz) == IF tz = "local" THEN ZoneOffset[localtz] ELSE ZoneOffset[tz]

-----------------------------------------------------------------------------
(* datetime.date / datetime.datetime                                       *)

Date(o) == [kind |-> "date", ord |-> o, tod |-> 0, tz |-> "None"]

DateTime(o, t, z) == [kind |-> "datetime", ord |-> o, tod |-> t, tz |-> z]

isinstance_datetime(m) == m.kind = "datetime"

Ok(v) == [err |-> "", val |-> v]

Raise(e) == [err |-> e, val |-> Date(0)]

Wall(m) == m.ord * MinutesPerDay + m.tod

FromWall(w, z) == DateTime(w \div MinutesPerDay, w % MinutesPerDay, z)

\* datetime.combine(date, time): the date part of its first argument (a date
\* or a datetime) with the given time; the result is naive.
combine(m, t) == DateTime(m.ord, t, "None")

\* m.date(): only a datetime has the method.
date_of(m) == IF isinstance_datetime(m) THEN Ok(Date(m.ord)) ELSE Raise("AttributeError")

\* m.time(): only a datetime has the method; the result carries no tzinfo.
time_of(m) == IF isinstance_datetime(m) THEN Ok(m.tod) ELSE Raise("AttributeError")

\* m.astimezone(tz): instant-preserving conversion; tz = "None" stands for
\* astimezone(None), which converts to the system's local zone.
astimezone(m, tz) ==
    IF ~isinstance_datetime(m) THEN Raise("AttributeError")
    ELSE LET src == IF m.tz = "None" THEN "local" ELSE m.tz
             dst == IF tz = "None" THEN "local" ELSE tz
             utc == Wall(m) - UtcOffset(src)
         IN  Ok(FromWall(utc + UtcOffset(dst), dst))

\* tz.localize(naive): pytz attaches the zone to the wall-clock time;
\* datetime.timezone ("local") has no localize method.
localize(tz, m) ==
    IF tz = "local" THEN Raise("AttributeError") ELSE Ok([m EXCEPT !.tz = tz])

Instant(m) == Wall(m) - UtcOffset(m.tz)

\* a == b of Python: a date never equals a datetime, a naive datetime never
\* equals an aware one, aware datetimes compare as instants.
PyEq(a, b) ==
    IF a.kind # b.kind THEN FALSE
    ELSE IF a.kind = "date" THEN a.ord = b.ord
    ELSE IF a.tz = "None" /\ b.tz = "None" THEN Wall(a) = Wall(b)
    ELSE IF a.tz = "None" \/ b.tz = "None" THEN FALSE
    ELSE Instant(a) = Instant(b)

Bool(b) == IF b THEN "True" ELSE "False"

\* a <= b of Python: TypeError for a date against a datetime and for a naive
\* datetime against an aware one.
PyLe(a, b) ==
    IF a.kind # b.kind THEN "TypeError"
    ELSE IF a.kind = "date" THEN Bool(a.ord <= b.ord)
    ELSE IF a.tz = "None" /\ b.tz = "None" THEN Bool(Wall(a) <= Wall(b))
    ELSE IF a.tz = "None" \/ b.tz = "None" THEN "TypeError"
    ELSE Bool(Instant(a) <= Instant(b))

-----------------------------------------------------------------------------
(* datetime.strptime for the configured formats                            *)

Digits == {"0", "1", "2", "3", "4", "5", "6", "7", "8", "9"}

DigitVal(c) ==
    CASE c = "0" -> 0 [] c = "1" -> 1 [] c = "2" -> 2 [] c = "3" -> 3
      [] c = "4" -> 4 [] c = "5" -> 5 [] c = "6" -> 6 [] c = "7" -> 7
      [] c = "8" -> 8 [] c = "9" -> 9

AllDigits(s) == \A i \in 1..Len(s) : s[i] \in Digits

RECURSIVE Number(_)
Number(s) == IF s = <<>> THEN 0
             ELSE 10 * Number(SubSeq(s, 1, Len(s) - 1)) + DigitVal(s[Len(s)])

IsLeap(y) == y % 4 = 0 /\ (y % 100 # 0 \/ y % 400 = 0)

DaysInMonth(y, m) ==
    IF m = 2 THEN (IF IsLeap(y) THEN 29 ELSE 28)
    ELSE IF m \in {4, 6, 9, 11} THEN 30 ELSE 31

RECURSIVE DaysBeforeMonth(_, _)
DaysBeforeMonth(y, m) ==
    IF m = 1 THEN 0 ELSE DaysBeforeMonth(y, m - 1) + DaysInMonth(y, m - 1)

DaysBeforeYear(y) ==
    (y - 1) * 365 + (y - 1) \div 4 - (y - 1) \div 100 + (y - 1) \div 400

\* date(y, m, d).toordinal()
toordinal(y, m, d) == DaysBeforeYear(y) + DaysBeforeMonth(y, m) + d

NoParse == [ok |-> FALSE, val |-> 0]

\* strptime(text, timeformat) with timeformat "%H:%M": one or two digits, a
\* colon, one or two digits, hour < 24, minute < 60.  val is the minute of
\* the day of the parsed time.
strptime_time(text) ==
    LET colons == {i \in 1..Len(text) : text[i] = ":"}
    IN  IF Cardinality(colons) # 1 THEN NoParse
        ELSE LET p  == CHOOSE i \in colons : TRUE
                 hh == SubSeq(text, 1, p - 1)
                 mm == SubSeq(text, p + 1, Len(text))
             IN  IF /\ Len(hh) \in {1, 2} /\ Len(mm) \in {1, 2}
                    /\ AllDigits(hh) /\ AllDigits(mm)
                    /\ Number(hh) < 24 /\ Number(mm) < 60
                 THEN [ok |-> TRUE, val |-> Number(hh) * 60 + Number(mm)]
                 ELSE NoParse

\* strptime(text, longdateformat) with longdateformat "%d.%m.%Y".  val is
\* the ordinal of the parsed date.
strptime_date(text) ==
    LET dots == {i \in 1..Len(text) : text[i] = "."}
    IN  IF Cardinality(dots) # 2 THEN NoParse
        ELSE LET p  == CHOOSE i \in dots : \A j \in dots : i <= j
                 q  == CHOOSE i \in dots : \A j \in dots : j <= i
                 dd == SubSeq(text, 1, p - 1)
                 mm == SubSeq(text, p + 1, q - 1)
                 yy == SubSeq(text, q + 1, Len(text))
             IN  IF /\ Len(dd) \in {1, 2} /\ Len(mm) \in {1, 2} /\ Len(yy) = 4
                    /\ AllDigits(dd) /\ AllDigits(mm) /\ AllDigits(yy)
                    /\ Number(yy) >= 1
                    /\ Number(mm) \in 1..12
                    /\ Number(dd) \in 1..DaysInMonth(Number(yy), Number(mm))
                 THEN [ok |-> TRUE,
                       val |-> toordinal(Number(yy), Number(mm), Number(dd))]
                 ELSE NoParse

-----------------------------------------------------------------------------
(* The texts a user types and the events an editor is opened on            *)

TimeTexts == { <<"0", "0", ":", "0", "0">>,
               <<"0", "6", ":", "0", "0">>,
               <<"2", "5", ":", "9", "9">>,
               <<"6", "h">> }

DateTexts == { <<"2", "8", ".", "0", "2", ".", "2", "0", "2", "4">>,
               <<"0", "1", ".", "0", "3", ".", "2", "0", "2", "4">>,
               <<"3", "0", ".", "0", "2", ".", "2", "0", "2", "4">> }

Feb28 == toordinal(2024, 2, 28)

Mar01 == toordinal(2024, 3, 1)

\* all-day events (dates) and timed events (aware datetimes), among them the
\* scenario of an all-day event that starts after it ends
InitialEvents ==
    { <<Date(Mar01), Date(Feb28)>>,
      <<Date(Feb28), Date(Mar01)>>,
      <<DateTime(Feb28, 360, default_timezone), DateTime(Feb28, 360, default_timezone)>>,
      <<DateTime(Feb28, 0, "America/New_York"), DateTime(Mar01, 360, "America/New_York")>> }

\* the dates the model follows: MaxDrift days around the dates above
MaxDrift == 1

InRange(m) == m.ord \in (Feb28 - MaxDrift)..(Mar01 + MaxDrift)

-----------------------------------------------------------------------------
(* StartEndEditor                                                          *)

Op(name, arg, out) == [op |-> name, arg |-> arg, out |-> out]

\* __init__
Init ==
    /\ localtz \in Zones
    /\ \E ev \in InitialEvents :
         /\ allday = ~isinstance_datetime(ev[1])
         /\ _startdt = ev[1]
         /\ _original_start = ev[1]
         /\ _enddt = ev[2]
         /\ _original_end = ev[2]
    /\ _tz_state = FALSE
    /\ lastop = Op("__init__", "", "ok")

\* a projection that hands out the stored value as it is
projected_raw(ad, m) == m

\* the startdt / enddt properties
projected(ad, m) == IF ad /\ isinstance_datetime(m) THEN Date(m.ord) ELSE m

startdt == projected(allday, _startdt)

enddt == projected(allday, _enddt)

\* the _start_time / _end_time properties
moment_time(m) == IF time_of(m).err = "AttributeError" THEN 0 ELSE time_of(m).val

\* a timezone property that ignores the moment's own tzinfo
moment_timezone_default_only(ad, m) == default_timezone

\* the timezone_start / timezone_end properties, on the projected moment
moment_timezone(ad, m) ==
    IF projected(ad, m).tz = "None" THEN default_timezone ELSE projected(ad, m).tz

\* a time validator that assigns before it looks at the parse result
validate_time_assign_first(ad, m, text) ==
    LET val == strptime_time(text)
    IN  IF ~isinstance_datetime(m) THEN [out |-> "AttributeError", m |-> m]
        ELSE [out |-> IF val.ok THEN "ok" ELSE "False",
              m |-> [combine(m, val.val) EXCEPT !.tz = moment_timezone(ad, m)]]

\* the body of _validate_start_time / _validate_end_time on moment m
validate_time(ad, m, text) ==
    LET val == strptime_time(text)
        d   == date_of(m)
        loc == localize(moment_timezone(ad, m), combine(d.val, val.val))
    IN  IF ~val.ok THEN [out |-> "False", m |-> m]
        ELSE IF loc.err # "" THEN [out |-> loc.err, m |-> m]
        ELSE IF d.err # "" THEN [out |-> d.err, m |-> m]
        ELSE [out |-> "ok", m |-> loc.val]

\* the body of _validate_start_date / _validate_end_date on moment m
validate_date(ad, m, text) ==
    LET val == strptime_date(text)
        loc == localize(moment_timezone(ad, m), combine(Date(val.val), moment_time(m)))
    IN  IF ~val.ok THEN [out |-> "False", m |-> m]
        ELSE IF loc.err # "" THEN [out |-> loc.err, m |-> m]
        ELSE [out |-> "ok", m |-> loc.val]

_validate_start_time(text) ==
    LET r == validate_time(allday, _startdt, text)
    IN  /\ _startdt' = r.m
        /\ lastop' = Op("_validate_start_time", "text", r.out)
        /\ UNCHANGED <<_enddt, allday, _tz_state, _original_start, _original_end, localtz>>

_validate_start_date(text) ==
    LET r == validate_date(allday, _startdt, text)
    IN  /\ _startdt' = r.m
        /\ lastop' = Op("_validate_start_date", "text", r.out)
        /\ UNCHANGED <<_enddt, allday, _tz_state, _original_start, _original_end, localtz>>

_validate_end_time(text) ==
    LET r == validate_time(allday, _enddt, text)
    IN  /\ _enddt' = r.m
        /\ lastop' = Op("_validate_end_time", "text", r.out)
        /\ UNCHANGED <<_startdt, allday, _tz_state, _original_start, _original_end, localtz>>

\* an end-date validator pasted from the start-date one: it reads the end
\* and assigns the start
_validate_end_date_pasted(text) ==
    LET r == validate_date(allday, _enddt, text)
    IN  /\ _startdt' = r.m
        /\ lastop' = Op("_validate_end_date", "text", r.out)
        /\ UNCHANGED <<_enddt, allday, _tz_state, _original_start, _original_end, localtz>>

_validate_end_date(text) ==
    LET r == validate_date(allday, _enddt, text)
    IN  /\ _enddt' = r.m
        /\ lastop' = Op("_validate_end_date", "text", r.out)
        /\ UNCHANGED <<_startdt, allday, _tz_state, _original_start, _original_end, localtz>>

\* both moments converted by the same method, _startdt first: an exception
\* at _startdt leaves everything as it was, an exception at _enddt leaves
\* _startdt already assigned; flag is the attribute set after the branch.
convert_both(rs, re, s, e, flag, state) ==
    IF rs.err # "" THEN [startdt |-> s, enddt |-> e, flag |-> flag, out |-> rs.err]
    ELSE IF re.err # "" THEN [startdt |-> rs.val, enddt |-> e, flag |-> flag, out |-> re.err]
    ELSE [startdt |-> rs.val, enddt |-> re.val, flag |-> state, out |-> "ok"]

\* a toggle that keeps the stored time-of-day when it leaves all-day mode
toggle_allday_keep_time(s, e, ad, state) ==
    IF ad /\ ~state
    THEN convert_both(Ok(combine(s, moment_time(s))), Ok(combine(e, moment_time(e))),
                      s, e, ad, state)
    ELSE IF ~ad /\ state
    THEN convert_both(Ok(s), Ok(e), s, e, ad, state)
    ELSE convert_both(Ok(s), Ok(e), s, e, ad, state)

\* a toggle that converts by the requested state alone, whatever the current
\* mode is
toggle_allday_unguarded(s, e, ad, state) ==
    IF ~state
    THEN convert_both(Ok(combine(s, 0)), Ok(combine(e, 0)), s, e, ad, state)
    ELSE convert_both(Ok(Date(s.ord)), Ok(Date(e.ord)), s, e, ad, state)

\* a toggle that converts the start and forgets the end
toggle_allday_start_only(s, e, ad, state) ==
    IF ad /\ ~state
    THEN convert_both(Ok(combine(s, 0)), Ok(e), s, e, ad, state)
    ELSE IF ~ad /\ state
    THEN convert_both(date_of(s), Ok(e), s, e, ad, state)
    ELSE convert_both(Ok(s), Ok(e), s, e, ad, state)

\* the body of toggle_allday on (s, e, ad)
toggle_allday_body(s, e, ad, state) ==
    IF ad /\ ~state
    THEN convert_both(Ok(combine(s, 0)), Ok(combine(e, 0)), s, e, ad, state)
    ELSE IF ~ad /\ state
    THEN convert_both(date_of(s), date_of(e), s, e, ad, state)
    ELSE convert_both(Ok(s), Ok(e), s, e, ad, state)

\* _get_chosen_timezone: the body is a debugger breakpoint and returns None
_get_chosen_timezone == "None"

\* the body of toggle_tz on (s, e, tzs)
toggle_tz_body(s, e, tzs, state) ==
    IF ~tzs /\ state
    THEN convert_both(astimezone(s, _get_chosen_timezone),
                      astimezone(e, _get_chosen_timezone), s, e, tzs, state)
    ELSE IF tzs /\ ~state
    THEN convert_both(astimezone(s, default_timezone),
                      astimezone(e, default_timezone), s, e, tzs, state)
    ELSE convert_both(Ok(s), Ok(e), s, e, tzs, state)

toggle_allday(state) ==
    LET r == toggle_allday_body(_startdt, _enddt, allday, state)
    IN  /\ _startdt' = r.startdt
        /\ _enddt' = r.enddt
        /\ allday' = r.flag
        /\ lastop' = Op("toggle_allday", Bool(state), r.out)
        /\ UNCHANGED <<_tz_state, _original_start, _original_end, localtz>>

toggle_tz(state) ==
    LET r == toggle_tz_body(_startdt, _enddt, _tz_state, state)
    IN  /\ InRange(r.startdt) /\ InRange(r.enddt)
        /\ _startdt' = r.startdt
        /\ _enddt' = r.enddt
        /\ _tz_state' = r.flag
        /\ lastop' = Op("toggle_tz", Bool(state), r.out)
        /\ UNCHANGED <<allday, _original_start, _original_end, localtz>>

\* a changed property that compares the stored fields, not the projections
changed_raw == ~PyEq(_startdt, _original_start) \/ ~PyEq(_enddt, _original_end)

\* the changed property
changed == ~PyEq(startdt, _original_start) \/ ~PyEq(enddt, _original_end)

\* validate(): "True", "False", or the exception the comparison raises
validate == PyLe(startdt, enddt)

Next ==
    \/ \E text \in TimeTexts : _validate_start_time(text)
    \/ \E text \in DateTexts : _validate_start_date(text)
    \/ \E text \in TimeTexts : _validate_end_time(text)
    \/ \E text \in DateTexts : _validate_end_date(text)
    \/ \E state \in BOOLEAN : toggle_allday(state)
    \/ \E state \in BOOLEAN : toggle_tz(state)

Spec == Init /\ [][Next]_vars
-----------------------------------------------------------------------------
(* Properties                                                              *)

TimeValidators == {"_validate_start_time", "_validate_end_time"}

DateValidators == {"_validate_start_date", "_validate_end_date"}

Toggles == {"toggle_allday", "toggle_tz"}

\* the timezone a moment stands in under the data model: its own, or the
\* default one when it has none
EffectiveTz(m) == IF m.tz = "None" THEN default_timezone ELSE m.tz

EffectiveInstant(m) == Wall(m) - UtcOffset(EffectiveTz(m))

\* C1: a text that does not parse against the configured format makes each of
\* the four field validations return the failure signal (False) and leaves
\* start, end, allday and the timezone visibility exactly as they were.
C1_InvalidTextIsNoOp ==
    [][ /\ \A text \in TimeTexts :
             (~strptime_time(text).ok
                /\ (_validate_start_time(text) \/ _validate_end_time(text)))
             => (lastop'.out = "False" /\ UNCHANGED data)
        /\ \A text \in DateTexts :
             (~strptime_date(text).ok
                /\ (_validate_start_date(text) \/ _validate_end_date(text)))
             => (lastop'.out = "False" /\ UNCHANGED data) ]_vars

\* the editor holds a timed event with aware moments and the last end-time
\* text was rejected
C1_Witness ==
    /\ lastop.op = "_validate_end_time" /\ lastop.out = "False"
    /\ ~allday /\ _enddt.tz # "None" /\ _startdt.tz # "None"

\* C2: in every state where allday is false, start and end both carry a
\* timezone; neither is a naive date+time.
C2_TimedMomentsCarryTimezone ==
    ~allday => /\ isinstance_datetime(startdt) /\ startdt.tz # "None"
               /\ isinstance_datetime(enddt) /\ enddt.tz # "None"

\* C3: validate() returns a boolean in every state, true exactly when
\* start <= end under the current representation (dates when all-day,
\* instants when timed).
C3_ValidateIsBooleanOrder ==
    /\ validate \in {"True", "False"}
    /\ validate = "True" <=>
         IF allday THEN startdt.ord <= enddt.ord
         ELSE EffectiveInstant(startdt) <= EffectiveInstant(enddt)

\* C4: toggle_allday and toggle_tz complete successfully from every state,
\* for both values of their argument.
C4_TogglesAreTotal == lastop.op \in Toggles => lastop.out = "ok"

\* C5: validating a time field with well-formed text while the edited moment
\* is stored as a date (no time-of-day) succeeds and keeps the moment's date.
C5_TimeFieldOnDateOnlyMoment ==
    [][ \A text \in TimeTexts :
          /\ (strptime_time(text).ok /\ ~isinstance_datetime(_startdt)
                /\ _validate_start_time(text))
             => (lastop'.out = "ok" /\ _startdt'.ord = _startdt.ord)
          /\ (strptime_time(text).ok /\ ~isinstance_datetime(_enddt)
                /\ _validate_end_time(text))
             => (lastop'.out = "ok" /\ _enddt'.ord = _enddt.ord) ]_vars

\* what a successful date edit of a moment must yield, on the exposed values:
\* the parsed date; for a timed moment the same time-of-day and the same
\* timezone (the default one if it had none); for an all-day moment a date
DateEdited(ad, old, new, text) ==
    /\ new.ord = strptime_date(text).val
    /\ IF ad THEN new = Date(strptime_date(text).val)
       ELSE /\ isinstance_datetime(new)
            /\ new.tod = old.tod
            /\ new.tz = EffectiveTz(old)

\* what a successful time edit of a moment must yield, on the exposed values:
\* the same date; for a timed moment the parsed time-of-day and the same
\* timezone (the default one if it had none)
TimeEdited(ad, old, new, text) ==
    /\ new.ord = old.ord
    /\ IF ad THEN new = old
       ELSE /\ isinstance_datetime(new)
            /\ new.tod = strptime_time(text).val
            /\ new.tz = EffectiveTz(old)

\* C6: a successful validation changes only the edited component of its
\* moment: a date edit sets the date and keeps time-of-day and timezone, a
\* time edit sets the time-of-day and keeps date and timezone; the default
\* timezone is attached only when the moment had none.
C6_EditChangesOnlyItsComponent ==
    [][ /\ \A text \in DateTexts :
             /\ (_validate_start_date(text) /\ lastop'.out = "ok")
                => DateEdited(allday, startdt, startdt', text)
             /\ (_validate_end_date(text) /\ lastop'.out = "ok")
                => DateEdited(allday, enddt, enddt', text)
        /\ \A text \in TimeTexts :
             /\ (_validate_start_time(text) /\ lastop'.out = "ok")
                => TimeEdited(allday, startdt, startdt', text)
             /\ (_validate_end_time(text) /\ lastop'.out = "ok")
                => TimeEdited(allday, enddt, enddt', text) ]_vars

\* a timed start in a zone other than the default one has been moved to
\* another date and is still in its own zone
C6_Witness ==
    /\ lastop.op = "_validate_start_date" /\ lastop.out = "ok"
    /\ ~allday
    /\ _startdt.tz = "America/New_York"
    /\ _startdt.ord # _original_start.ord
    /\ _startdt.tod = _original_start.tod

\* the value of a moment: a date, a naive wall-clock time, or an instant
MomentValue(m) ==
    IF ~isinstance_datetime(m) THEN <<"date", m.ord>>
    ELSE IF m.tz = "None" THEN <<"naive", Wall(m)>>
    ELSE <<"aware", Instant(m)>>

C8_TimezoneRoundTrip ==
    (~allday /\ ~_tz_state) =>
        LET shown  == toggle_tz_body(_startdt, _enddt, _tz_state, TRUE)
            hidden == toggle_tz_body(shown.startdt, shown.enddt, shown.flag, FALSE)
        IN  /\ shown.out = "ok" /\ hidden.out = "ok"
            /\ EffectiveInstant(hidden.startdt) = EffectiveInstant(_startdt)
            /\ EffectiveInstant(hidden.enddt) = EffectiveInstant(_enddt)
            /\ hidden.startdt.tz = default_timezone
            /\ hidden.enddt.tz = default_timezone
            /\ (_startdt.tz = default_timezone => hidden.startdt = _startdt)
            /\ (_enddt.tz = default_timezone => hidden.enddt = _enddt)

\* C9: from a timed state, toggle_allday(True) followed by toggle_allday(False)
\* yields moments with the dates from before and midnight as time-of-day;
\* the round trip gives back the same moments only if both times were
\* midnight before.
C9_AllDayRoundTripIsMidnight ==
    ~allday =>
        LET dates == toggle_allday_body(_startdt, _enddt, allday, TRUE)
            timed == toggle_allday_body(dates.startdt, dates.enddt, dates.flag, FALSE)
        IN  /\ dates.out = "ok" /\ timed.out = "ok"
            /\ dates.flag /\ ~timed.flag
            /\ isinstance_datetime(timed.startdt) /\ isinstance_datetime(timed.enddt)
            /\ timed.startdt.ord = _startdt.ord /\ timed.startdt.tod = 0
            /\ timed.enddt.ord = _enddt.ord /\ timed.enddt.tod = 0
            /\ (timed.startdt = _startdt /\ timed.enddt = _enddt)
               => (_startdt.tod = 0 /\ _enddt.tod = 0)

\* a timed event that did not start at midnight has been made all-day and
\* timed again: same date, midnight
C9_Witness ==
    /\ lastop = Op("toggle_allday", "False", "ok")
    /\ isinstance_datetime(_original_start) /\ _original_start.tod # 0
    /\ ~allday
    /\ _startdt = DateTime(_original_start.ord, 0, "None")
    /\ _enddt.tod = 0

\* C10: in every state where allday is true, the start and end handed to
\* callers are dates: no time-of-day, no timezone.
C10_AllDayExposesDates ==
    allday => /\ ~isinstance_datetime(startdt) /\ startdt.tod = 0 /\ startdt.tz = "None"
              /\ ~isinstance_datetime(enddt) /\ enddt.tod = 0 /\ enddt.tz = "None"

\* an all-day event that stores aware datetimes with a time-of-day, after a
\* timezone toggle made while all-day
C10_Witness ==
    /\ lastop.op = "toggle_tz" /\ lastop.out = "ok"
    /\ allday
    /\ isinstance_datetime(_startdt) /\ _startdt.tz # "None" /\ _startdt.tod # 0
    /\ isinstance_datetime(_enddt)
\* C11: a toggle request for the state the editor is already in changes no
\* data: toggle_allday(allday) and toggle_tz(_tz_state) leave start, end,
\* allday and the timezone visibility as they were.
C11_SameStateToggleIsNoOp ==
    [][ \A state \in BOOLEAN :
          /\ (state = allday /\ toggle_allday(state))
             => (lastop'.out = "ok" /\ UNCHANGED data)
          /\ (state = _tz_state /\ toggle_tz(state))
             => (lastop'.out = "ok" /\ UNCHANGED data) ]_vars

\* a timed event away from midnight right after toggle_allday(False): the
\* request met a timed editor, or the time-of-day would be midnight
C11_Witness ==
    /\ lastop = Op("toggle_allday", "False", "ok")
    /\ ~allday
    /\ _startdt.tod # 0 /\ _startdt.tz # "None"
\* C12: in every state start and end are of the same kind, both dates or
\* both date+time, and a field edit of one moment never makes its kind
\* differ from the other moment's.
C12_SameRepresentationKind ==
    /\ startdt.kind = enddt.kind
    /\ allday <=> ~isinstance_datetime(startdt)

\* an all-day event after an edit of the start date alone: a datetime is
\* stored for the start and a date for the end
C12_Witness ==
    /\ lastop.op = "_validate_start_date" /\ lastop.out = "ok"
    /\ allday
    /\ isinstance_datetime(_startdt) /\ ~isinstance_datetime(_enddt)
\* C13: while allday is true, toggle_tz (in either direction) does not
\* change the projected date of start or of end, and so changes neither
\* changed nor validate().
C13_AllDayTimezoneToggleKeepsDates ==
    [][ \A state \in BOOLEAN :
          (allday /\ toggle_tz(state))
          => /\ startdt' = startdt
             /\ enddt' = enddt
             /\ changed' = changed
             /\ validate' = validate ]_vars
StartValidators == {"_validate_start_time", "_validate_start_date"}

EndValidators == {"_validate_end_time", "_validate_end_date"}

\* the step is a call of one of the named methods
Called(ops) == lastop'.op \in ops /\ vars' # vars

\* C14: a field validation touches its own moment only: a start-field
\* validation, successful or not, never modifies end, an end-field validation
\* never modifies start, and none modifies allday, the timezone visibility or
\* the original start and end.
C14_EditsConfinedToOwnMoment ==
    [][ /\ Called(StartValidators) => (_enddt' = _enddt /\ enddt' = enddt)
        /\ Called(EndValidators) => (_startdt' = _startdt /\ startdt' = startdt)
        /\ Called(StartValidators \cup EndValidators)
           => UNCHANGED <<allday, _tz_state, _original_start, _original_end>> ]_vars

\* a successful end-date edit that moved the end away from its original date
\* while the start is still the original one
C14_Witness ==
    /\ lastop.op = "_validate_end_date" /\ lastop.out = "ok"
    /\ _enddt.ord # _original_end.ord
    /\ _startdt = _original_start
====
